---- MODULE Spec2Model ----
(***************************************************************************)
(* CondensedNearestNeighbour._fit_resample                                 *)
(* (imbalanced_ensemble/sampler/under_sampling/_prototype_selection/       *)
(*  _condensed_nearest_neighbour.py) as a state machine.                   *)
(*                                                                         *)
(* One sampler object is constructed (Init) and fit_resample is called on  *)
(* a dataset of NSamples rows.  Rows are indexed 0..NSamples-1 as in the   *)
(* code; TLA+ sequences are 1-based, so  seq[p + 1]  is element p of the   *)
(* numpy array the sequence stands for.                                    *)
(***************************************************************************)
EXTENDS Integers, Sequences, FiniteSets, TLC

\* ------------------------------------------------------------------ bounds
NSamples == 4      \* rows of the dataset
MaxLabel == 1      \* labels are 0..MaxLabel
MaxSeeds == 2      \* n_seeds_S ranges over 1..MaxSeeds
MaxK     == 2      \* an integer n_neighbors ranges over 1..MaxK

Samples == 0 .. (NSamples - 1)
Labels  == 0 .. MaxLabel

\* ------------------------------------------------------------- state
VARIABLES
    X,                  \* feature of every row (one coordinate)
    y,                  \* label of every row
    sampling_strategy_, \* keys of self.sampling_strategy_
    n_neighbors,        \* self.n_neighbors: [type, k]
    n_seeds_S,          \* self.n_seeds_S
    random_state,       \* self.random_state: "None" or "int"
    tie_break,          \* how the neighbour search orders equidistant rows
    estimator_,         \* self.estimator_: [k, fit]; k = 0 before validation
    rng_stream,         \* values the random generator in use has produced
    rng_pos,            \* values the generator object in use has consumed
    class_minority,     \* line 145
    classes,            \* labels np.unique(y) still has to visit
    target_class,       \* the loop variable of line 148
    idx_maj_sample,     \* line 153, 193
    C_indices,          \* line 162, 196
    pred_S_ok,          \* np.flatnonzero(pred_S_y == S_y), line 208
    good_classif_label, \* line 176, 207
    idx_sam,            \* the loop variable of line 178
    idx_under,          \* line 146, 211, 213
    sample_indices_,    \* self.sample_indices_: [set, val]
    pc,                 \* where _fit_resample is
    error,              \* the exception that ended the call, or "none"
    run,                \* 1 for the first call of fit_resample, 2 for the second
    first_run,          \* sample_indices_ of the first call, once a second began
    seeds,              \* history: what randint returned for the class in progress
    emitted,            \* history: the indices emitted while processing each label
    rng_calls,          \* history: the labels the generator was consulted for
    n_fit,              \* history: fits of the estimator for the class in progress
    last_step           \* history: what the last loop iteration did

vars == << X, y, sampling_strategy_, n_neighbors, n_seeds_S, random_state,
           tie_break, estimator_, rng_stream, rng_pos, class_minority, classes,
           target_class, idx_maj_sample, C_indices, pred_S_ok,
           good_classif_label, idx_sam, idx_under, sample_indices_, pc, error,
           run, first_run, seeds, emitted, rng_calls, n_fit, last_step >>

config == << X, y, sampling_strategy_, n_neighbors, n_seeds_S, random_state,
             tie_break >>

\* ------------------------------------------------------------- helpers
Range(s) == { s[i] : i \in DOMAIN s }

Abs(a) == IF a < 0 THEN -a ELSE a

RECURSIVE Pow2(_)
Pow2(j) == IF j = 0 THEN 1 ELSE 2 * Pow2(j - 1)

\* Coordinates 0, 1, 3, 7, ...: all pairwise differences are distinct, so two
\* rows are equidistant from a third only if they have the same features.
Ruler(j) == Pow2(j) - 1

\* np.flatnonzero(y == label): the indices of a label, ascending.
flatnonzero(labels, label) ==
    SelectSeq([i \in 1 .. NSamples |-> i - 1], LAMBDA i : labels[i] = label)

\* Counter(y)[label]
target_stats(labels, label) == Cardinality({ i \in Samples : labels[i] = label })

\* min(target_stats, key=target_stats.get): the smallest count; among equal
\* counts the label Counter met first.
First(labels, label) == CHOOSE i \in Samples :
    labels[i] = label /\ \A j \in Samples : labels[j] = label => i <= j

Present(labels) == { labels[i] : i \in Samples }

ClassMinority(labels) == CHOOSE l \in Present(labels) :
    \A m \in Present(labels) \ {l} :
        \/ target_stats(labels, l) < target_stats(labels, m)
        \/ /\ target_stats(labels, l) = target_stats(labels, m)
           /\ First(labels, l) < First(labels, m)

\* np.unique(y): the labels present, ascending.
RECURSIVE Ascending(_)
Ascending(S) ==
    IF S = {} THEN << >>
    ELSE LET lo == CHOOSE a \in S : \A b \in S : a <= b
         IN  << lo >> \o Ascending(S \ {lo})


\* ------------------------------------------------ the estimator (collaborator)
\* KNeighborsClassifier.kneighbors: training position q is a nearer neighbour
\* of a row with feature x than position p.  Equidistant rows are ordered by the
\* search's tie_break, fixed for the process: by training position, ascending
\* ("first") or descending ("last").
Nearer(feat, C, q, p, x, tb) ==
    LET dq == Abs(x - feat[C[q]])
        dp == Abs(x - feat[C[p]])
    IN  \/ dq < dp
        \/ dq = dp /\ (IF tb = "first" THEN q < p ELSE q > p)

kneighbors(feat, C, k, x, tb) ==
    { p \in DOMAIN C :
        Cardinality({ q \in DOMAIN C : Nearer(feat, C, q, p, x, tb) }) < k }

\* KNeighborsClassifier.predict with uniform weights: the most frequent label
\* among the k neighbours, the smallest label among equally frequent ones.
Votes(labels, C, nb, l) == Cardinality({ p \in nb : labels[C[p]] = l })

predict(feat, labels, est, x, tb) ==
    LET nb == kneighbors(feat, est.fit, est.k, x, tb)
    IN  CHOOSE l \in Labels : \A m \in Labels \ {l} :
            \/ Votes(labels, est.fit, nb, l) > Votes(labels, est.fit, nb, m)
            \/ /\ Votes(labels, est.fit, nb, l) = Votes(labels, est.fit, nb, m)
               /\ l < m

\* kneighbors raises ValueError when n_neighbors exceeds the rows it was fit on.
CanPredict(est) == est.k <= Len(est.fit)

\* self.estimator_.fit(C_x, C_y), lines 174 and 201
Fit(est, C) == [k |-> est.k, fit |-> C]

\* ------------------------------------------------ configuration
NNConfigs ==
    { [type |-> "NoneType", k |-> 0], [type |-> "str", k |-> 0] }
    \cup { [type |-> t, k |-> k] : t \in {"int", "KNeighborsClassifier"},
                                    k \in 1 .. MaxK }

\* Slip: every type that is no int and no classifier gets the default 1-NN.
ValidateEstimator_Lenient(nn) ==
    IF nn.type \in {"int", "KNeighborsClassifier"} THEN nn.k ELSE 1

\* _validate_estimator, lines 123-138: the n_neighbors of the estimator it
\* builds, 0 when it raises ValueError.
ValidateEstimator(nn) ==
    IF nn.type = "NoneType" THEN 1
    ELSE IF nn.type = "int" THEN nn.k
    ELSE IF nn.type = "KNeighborsClassifier" THEN nn.k
    ELSE 0

\* Slip: the process-wide generator is used whatever random_state is.
CheckRandomState_Singleton(rs, pos) == pos

\* check_random_state(self.random_state), line 143: where in its stream the
\* generator it returns stands.  An int seeds a new RandomState, which starts
\* at the beginning of the seed's stream; None is the np.random singleton,
\* which stands where the previous draws of the process left it.
CheckRandomState(rs, pos) == IF rs = "int" THEN 0 ELSE pos

\* random_state.randint(low=0, high=high, size=size), lines 154-158: the draws
\* a generator standing at pos can return.  Values of the stream already
\* produced are fixed, later ones are any value below high.
Randint(stream, pos, high, size) ==
    { d \in [1 .. size -> 0 .. (high - 1)] :
        \A j \in 1 .. size : pos + j <= Len(stream) => d[j] = stream[pos + j] }

\* The stream after the draws d were taken at pos.
Advance(stream, pos, d) ==
    [j \in 1 .. (IF pos + Len(d) > Len(stream) THEN pos + Len(d) ELSE Len(stream)) |->
        IF j <= Len(stream) THEN stream[j] ELSE d[j - pos]]

\* ------------------------------------------------ datasets
Injective(f) == \A a, b \in DOMAIN f : f[a] = f[b] => a = b

\* Every placement of the rows on the ruler, and every placement with the two
\* rightmost rows on one point (duplicate rows).
Layouts ==
    { [i \in Samples |->
          Ruler(IF twin /\ r[i] = NSamples - 1 THEN NSamples - 2 ELSE r[i])] :
        r \in { f \in [Samples -> Samples] : Injective(f) },
        twin \in BOOLEAN }

Unset == [set |-> FALSE, val |-> << >>]
NoStep == [pos |-> -1, act |-> "none"]

Init ==
    /\ X \in Layouts
    /\ y \in [Samples -> Labels]
    /\ sampling_strategy_ \in SUBSET Present(y)
    /\ n_neighbors \in NNConfigs
    /\ n_seeds_S \in 1 .. MaxSeeds
    /\ random_state \in {"None", "int"}
    /\ tie_break \in (IF Injective(X) THEN {"first"} ELSE {"first", "last"})
    /\ estimator_ = [k |-> 0, fit |-> << >>]
    /\ rng_stream = << >>
    /\ rng_pos = 0
    /\ class_minority = -1
    /\ classes = << >>
    /\ target_class = -1
    /\ idx_maj_sample = << >>
    /\ C_indices = << >>
    /\ pred_S_ok = {}
    /\ good_classif_label = {}
    /\ idx_sam = 0
    /\ idx_under = << >>
    /\ sample_indices_ = Unset
    /\ pc = "start"
    /\ error = "none"
    /\ run = 1
    /\ first_run = Unset
    /\ seeds = << >>
    /\ emitted = [l \in Labels |-> << >>]
    /\ rng_calls = << >>
    /\ n_fit = 0
    /\ last_step = NoStep


\* ------------------------------------------------ pieces of _fit_resample
\* Slip: C holds the seeds only, the minority rows are left out.
TrainingSet_SeedsOnly(minority, maj_sample) == maj_sample

\* C_indices = np.append(np.flatnonzero(y == class_minority), idx_maj_sample),
\* lines 162-164
TrainingSet(minority, maj_sample) == minority \o maj_sample

\* Slip: the drawn positions are taken for row indices.
SeedSample_Position(idx_maj, d) == [j \in DOMAIN d |-> d[j]]

\* idx_maj[randint(...)], lines 153-159: the rows at the drawn positions
SeedSample(idx_maj, d) == [j \in DOMAIN d |-> idx_maj[d[j] + 1]]

\* "if idx_sam in good_classif_label", line 181
Skip(pos, good) == pos \in good

\* Slip: the index is put in front of the list.
KeepIndex_Front(indices, idx) == << idx >> \o indices

\* np.append(idx_maj_sample, idx_maj[idx_sam]), lines 193 and 196
KeepIndex(indices, idx) == Append(indices, idx)

\* np.flatnonzero(pred_S_y == S_y), line 208, for pred_S_y of line 206
PredSOk(feat, labels, est, idx_maj, tb) ==
    { p \in 0 .. (Len(idx_maj) - 1) :
        predict(feat, labels, est, feat[idx_maj[p + 1]], tb) = labels[idx_maj[p + 1]] }

\* np.unique(np.append(idx_maj_sample, ...)), lines 207-209
GoodClassif(maj_sample, ok) == Range(maj_sample) \cup ok

\* np.concatenate((idx_under, ...)), lines 211 and 213
Concatenate(under, more) == under \o more

\* ------------------------------------------------ actions
\* Lines 141-146: validate the estimator, get the generator, the class
\* statistics and the empty result.
Begin ==
    /\ pc = "start"
    /\ IF ValidateEstimator(n_neighbors) = 0
       THEN /\ pc' = "error"
            /\ error' = "ValueError"
            /\ UNCHANGED << estimator_, rng_pos, class_minority, idx_under, classes >>
       ELSE /\ estimator_' = [k |-> ValidateEstimator(n_neighbors), fit |-> << >>]
            /\ rng_pos' = CheckRandomState(random_state, rng_pos)
            /\ class_minority' = ClassMinority(y)
            /\ idx_under' = << >>
            /\ classes' = Ascending(Present(y))
            /\ pc' = "class_loop"
            /\ error' = "none"
    /\ UNCHANGED << config, rng_stream, target_class, idx_maj_sample, C_indices,
                    pred_S_ok, good_classif_label, idx_sam, sample_indices_,
                    run, first_run, seeds, emitted, rng_calls, n_fit, last_step >>

\* Lines 148-176 for a class of sampling_strategy_: draw the seeds, build C,
\* fit the estimator on it.
ClassBegin ==
    /\ pc = "class_loop"
    /\ classes # << >>
    /\ Head(classes) \in sampling_strategy_
    /\ LET idx_maj == flatnonzero(y, Head(classes))
       IN  \E d \in Randint(rng_stream, rng_pos,
                            target_stats(y, Head(classes)), n_seeds_S) :
             LET sample == SeedSample(idx_maj, d)
                 C == TrainingSet(flatnonzero(y, class_minority), sample)
             IN  /\ rng_stream' = Advance(rng_stream, rng_pos, d)
                 /\ rng_pos' = rng_pos + n_seeds_S
                 /\ idx_maj_sample' = sample
                 /\ C_indices' = C
                 /\ estimator_' = Fit(estimator_, C)
                 /\ good_classif_label' = Range(sample)
                 /\ seeds' = d
    /\ target_class' = Head(classes)
    /\ classes' = Tail(classes)
    /\ pred_S_ok' = {}
    /\ idx_sam' = 0
    /\ pc' = "sample_loop"
    /\ rng_calls' = Append(rng_calls, Head(classes))
    /\ n_fit' = 1
    /\ last_step' = NoStep
    /\ UNCHANGED << config, class_minority, idx_under, sample_indices_, error,
                    run, first_run, emitted >>

\* Lines 178-209: one iteration of the loop over S.
SampleStep ==
    /\ pc = "sample_loop"
    /\ idx_sam < target_stats(y, target_class)
    /\ LET idx_maj == flatnonzero(y, target_class)
           g == idx_maj[idx_sam + 1]
       IN  IF Skip(idx_sam, good_classif_label)
           THEN /\ idx_sam' = idx_sam + 1
                /\ last_step' = [pos |-> idx_sam, act |-> "skip"]
                /\ UNCHANGED << idx_maj_sample, C_indices, estimator_, pred_S_ok,
                                good_classif_label, n_fit, pc, error >>
           ELSE IF ~CanPredict(estimator_)
           THEN /\ pc' = "error"
                /\ error' = "NeighborsError"
                /\ last_step' = [pos |-> idx_sam, act |-> "raise"]
                /\ UNCHANGED << idx_maj_sample, C_indices, estimator_, pred_S_ok,
                                good_classif_label, n_fit, idx_sam >>
           ELSE IF y[g] = predict(X, y, estimator_, X[g], tie_break)
           THEN /\ idx_sam' = idx_sam + 1
                /\ last_step' = [pos |-> idx_sam, act |-> "agree"]
                /\ UNCHANGED << idx_maj_sample, C_indices, estimator_, pred_S_ok,
                                good_classif_label, n_fit, pc, error >>
           ELSE LET sample == KeepIndex(idx_maj_sample, g)
                    C == KeepIndex(C_indices, g)
                    est == Fit(estimator_, C)
                    ok == PredSOk(X, y, est, idx_maj, tie_break)
                IN  /\ idx_maj_sample' = sample
                    /\ C_indices' = C
                    /\ estimator_' = est
                    /\ pred_S_ok' = ok
                    /\ good_classif_label' = GoodClassif(sample, ok)
                    /\ n_fit' = n_fit + 1
                    /\ idx_sam' = idx_sam + 1
                    /\ last_step' = [pos |-> idx_sam, act |-> "append"]
                    /\ UNCHANGED << pc, error >>
    /\ UNCHANGED << config, rng_stream, rng_pos, class_minority, classes,
                    target_class, idx_under, sample_indices_, run, first_run,
                    seeds, emitted, rng_calls >>

\* Line 211: the loop over S is over, the class's indices join the result.
ClassEnd ==
    /\ pc = "sample_loop"
    /\ idx_sam = target_stats(y, target_class)
    /\ idx_under' = Concatenate(idx_under, idx_maj_sample)
    /\ emitted' = [emitted EXCEPT ![target_class] = idx_maj_sample]
    /\ pc' = "class_loop"
    /\ last_step' = NoStep
    /\ UNCHANGED << config, estimator_, rng_stream, rng_pos, class_minority,
                    classes, target_class, idx_maj_sample, C_indices, pred_S_ok,
                    good_classif_label, idx_sam, sample_indices_, error, run,
                    first_run, seeds, rng_calls, n_fit >>

\* Lines 212-215: a class that is no key of sampling_strategy_.
ClassPassthrough ==
    /\ pc = "class_loop"
    /\ classes # << >>
    /\ Head(classes) \notin sampling_strategy_
    /\ target_class' = Head(classes)
    /\ classes' = Tail(classes)
    /\ idx_under' = Concatenate(idx_under, flatnonzero(y, Head(classes)))
    /\ emitted' = [emitted EXCEPT ![Head(classes)] = flatnonzero(y, Head(classes))]
    /\ UNCHANGED << config, estimator_, rng_stream, rng_pos, class_minority,
                    idx_maj_sample, C_indices, pred_S_ok, good_classif_label,
                    idx_sam, sample_indices_, pc, error, run, first_run, seeds,
                    rng_calls, n_fit, last_step >>

\* Lines 217-223: np.unique(y) is exhausted.
Finish ==
    /\ pc = "class_loop"
    /\ classes = << >>
    /\ sample_indices_' = [set |-> TRUE, val |-> idx_under]
    /\ pc' = "done"
    /\ UNCHANGED << config, estimator_, rng_stream, rng_pos, class_minority,
                    classes, target_class, idx_maj_sample, C_indices, pred_S_ok,
                    good_classif_label, idx_sam, idx_under, error, run,
                    first_run, seeds, emitted, rng_calls, n_fit, last_step >>

\* fit_resample is called a second time on the same object and dataset: the
\* locals of the first call are gone, the attributes and the process's
\* generators stay.
Again ==
    /\ pc = "done"
    /\ run = 1
    /\ run' = 2
    /\ first_run' = sample_indices_
    /\ pc' = "start"
    /\ class_minority' = -1
    /\ classes' = << >>
    /\ target_class' = -1
    /\ idx_maj_sample' = << >>
    /\ C_indices' = << >>
    /\ pred_S_ok' = {}
    /\ good_classif_label' = {}
    /\ idx_sam' = 0
    /\ idx_under' = << >>
    /\ seeds' = << >>
    /\ emitted' = [l \in Labels |-> << >>]
    /\ rng_calls' = << >>
    /\ n_fit' = 0
    /\ last_step' = NoStep
    /\ UNCHANGED << config, estimator_, rng_stream, rng_pos, sample_indices_, error >>

\* One call of fit_resample.
Next ==
    \/ Begin
    \/ ClassBegin
    \/ SampleStep
    \/ ClassEnd
    \/ ClassPassthrough
    \/ Finish

Spec == Init /\ [][Next]_vars

\* Two calls of fit_resample on one sampler with the default estimator.
InitAgain == Init /\ n_neighbors.type = "NoneType"

NextAgain ==
    \/ Begin
    \/ ClassBegin
    \/ SampleStep
    \/ ClassEnd
    \/ ClassPassthrough
    \/ Finish
    \/ Again

SpecAgain == InitAgain /\ [][NextAgain]_vars

TypeOK ==
    /\ pc \in {"start", "class_loop", "sample_loop", "done", "error"}
    /\ run \in {1, 2}

\* ------------------------------------------------ vocabulary of the properties
\* The rows of a label, and the row at queue position p (0-based) of a label.
ClassRows(l) == { i \in Samples : y[i] = l }

NthRow(l, p) == CHOOSE i \in ClassRows(l) :
    Cardinality({ j \in ClassRows(l) : j < i }) = p

\* The seed rows of the class in progress, in drawing order.
SeedRows == [j \in DOMAIN seeds |-> NthRow(target_class, seeds[j])]

\* Occurrences of a value in a sequence.
Count(s, v) == Cardinality({ j \in DOMAIN s : s[j] = v })

\* The class of target_class is a targeted one and its loop is in progress.
InLoop == pc = "sample_loop"

\* The class of target_class is a targeted one and its loop has finished and
\* its indices were emitted (no later class has begun).
JustEnded == pc \in {"class_loop", "done"} /\ target_class \in sampling_strategy_

\* The labels np.unique(y) has been through.
Visited == IF pc \in {"class_loop", "sample_loop", "done"}
           THEN { l \in Present(y) : l \notin Range(classes)
                                     /\ ~(InLoop /\ l = target_class) }
           ELSE {}

\* The minority rows, from the counts: no label has fewer rows than theirs.
IsMinority(l) == l \in Present(y) /\ \A m \in Present(y) :
    Cardinality(ClassRows(l)) <= Cardinality(ClassRows(m))

RECURSIVE AllEmitted(_)
AllEmitted(l) == IF l > MaxLabel THEN << >> ELSE emitted[l] \o AllEmitted(l + 1)

\* ------------------------------------------------ C2
\* C2: the indices emitted while processing a label L are rows of the dataset
\* that carry label L; for a label that is no key of sampling_strategy_ they
\* are exactly L's rows, each once; idx_under is what the labels emitted, in
\* ascending label order.
C2_Containment ==
    /\ \A l \in Labels :
         /\ \A j \in DOMAIN emitted[l] :
                emitted[l][j] \in Samples /\ y[emitted[l][j]] = l
         /\ (l \in Visited /\ l \notin sampling_strategy_) =>
                /\ Range(emitted[l]) = ClassRows(l)
                /\ \A i \in ClassRows(l) : Count(emitted[l], i) = 1
    /\ pc \in {"class_loop", "sample_loop", "done"} => idx_under = AllEmitted(0)

\* A call that ended with a passthrough label and a targeted label whose list
\* grew beyond its seeds.
C2_Witness ==
    /\ pc = "done"
    /\ \E l \in Visited : l \notin sampling_strategy_
    /\ \E l \in Visited : l \in sampling_strategy_ /\ Len(emitted[l]) > n_seeds_S

\* ------------------------------------------------ C3
\* C3: the majority-side list starts as the n_seeds_S seed rows (duplicates
\* kept), a loop iteration leaves it alone or appends one index at its end, and
\* the list emitted for the class has the seed rows as its prefix.
C3_Step ==
    pc = "sample_loop" =>
        \/ idx_maj_sample' = idx_maj_sample
        \/ \E i \in Samples : idx_maj_sample' = Append(idx_maj_sample, i)

C3_SeedPrefix ==
    /\ (InLoop \/ JustEnded) =>
         /\ Len(seeds) = n_seeds_S
         /\ Len(idx_maj_sample) >= n_seeds_S
         /\ SubSeq(idx_maj_sample, 1, n_seeds_S) = SeedRows
    /\ InLoop /\ idx_sam = 0 => idx_maj_sample = SeedRows
    /\ JustEnded =>
         /\ emitted[target_class] = idx_maj_sample
         /\ Range(SeedRows) \subseteq Range(emitted[target_class])

\* C3: monotonic growth from the seeds: every step of the loop is a C3_Step
\* and every state satisfies C3_SeedPrefix.
C3_MonotonicGrowth == [][C3_Step]_vars /\ []C3_SeedPrefix

\* A class whose two seed draws were the same row and whose list grew.
C3_Witness ==
    /\ JustEnded
    /\ Len(seeds) = 2 /\ seeds[1] = seeds[2]
    /\ Len(emitted[target_class]) > 2

\* ------------------------------------------------ C10
\* C10: whenever a targeted class is in progress or has just ended, the rows
\* the estimator was last fit on are the rows of the one minority label (a
\* label of minimal count, the same for every class), ascending, followed by
\* the class's majority-side list; the emitted list is that training list
\* without its minority part.
C10_TrainingSet ==
    /\ pc \in {"class_loop", "sample_loop", "done"} =>
         /\ IsMinority(class_minority)
         /\ class_minority = ClassMinority(y)
    /\ (InLoop \/ JustEnded) =>
         LET nmin == Cardinality(ClassRows(class_minority))
         IN  /\ Len(estimator_.fit) = nmin + Len(idx_maj_sample)
             /\ \A p \in 1 .. nmin :
                    estimator_.fit[p] = NthRow(class_minority, p - 1)
             /\ \A p \in 1 .. Len(idx_maj_sample) :
                    estimator_.fit[nmin + p] = idx_maj_sample[p]
             /\ C_indices = estimator_.fit
             /\ JustEnded =>
                    emitted[target_class] =
                        SubSeq(estimator_.fit, nmin + 1, Len(estimator_.fit))

\* A second targeted class has ended, after refits, under the same minority.
C10_Witness ==
    /\ JustEnded
    /\ Len(rng_calls) = 2
    /\ target_class # class_minority
    /\ n_fit > 1


\* ------------------------------------------------ C8
\* The call got past _validate_estimator.
Processing ==
    \/ pc \in {"class_loop", "sample_loop", "done"}
    \/ pc = "error" /\ error = "NeighborsError"

\* Nothing was drawn, fit or emitted.
Untouched ==
    /\ rng_calls = << >>
    /\ rng_stream = << >>
    /\ estimator_ = [k |-> 0, fit |-> << >>]
    /\ idx_under = << >>
    /\ \A l \in Labels : emitted[l] = << >>
    /\ ~sample_indices_.set

\* C8 as claimed: an n_neighbors that is no integer and no classifier instance
\* ends the call in the configuration error with nothing drawn, fit or
\* emitted, and only an integer or a classifier instance lets processing start.
C8_FailFast ==
    /\ (pc # "start" /\ n_neighbors.type \notin {"int", "KNeighborsClassifier"}) =>
           pc = "error" /\ error = "ValueError" /\ Untouched
    /\ Processing => n_neighbors.type \in {"int", "KNeighborsClassifier"}

\* C8 amended: the same with None among the accepted values (None builds the
\* default 1-NN estimator).
C8_FailFastAmended ==
    /\ (pc # "start"
        /\ n_neighbors.type \notin {"NoneType", "int", "KNeighborsClassifier"}) =>
           pc = "error" /\ error = "ValueError" /\ Untouched
    /\ Processing => n_neighbors.type \in {"NoneType", "int", "KNeighborsClassifier"}

\* A call with a string for n_neighbors has ended in the configuration error.
C8_Witness ==
    /\ pc = "error"
    /\ error = "ValueError"
    /\ n_neighbors.type = "str"
    /\ sampling_strategy_ # {}

\* ------------------------------------------------ C6
\* The generator is consulted once per targeted label, in ascending label
\* order, and for no other label.
RngOrder ==
    /\ \A j \in DOMAIN rng_calls : rng_calls[j] \in sampling_strategy_
    /\ \A j, k \in DOMAIN rng_calls : j < k => rng_calls[j] < rng_calls[k]
    /\ rng_pos <= Len(rng_stream)
    /\ pc = "done" => Range(rng_calls) = sampling_strategy_ \cap Present(y)

\* C6 as claimed: a second call with the same dataset, configuration and
\* random_state emits the index sequence of the first, and the generator is
\* consulted once per targeted label in ascending label order.
C6_Determinism ==
    /\ RngOrder
    /\ (run = 2 /\ pc = "done") => sample_indices_ = first_run

\* C6 amended: the same for a random_state that is an integer seed.
C6_DeterminismSeeded ==
    /\ RngOrder
    /\ (run = 2 /\ pc = "done" /\ random_state = "int") =>
           sample_indices_ = first_run

\* A second seeded call has ended; two labels were targeted and one of them
\* kept more than its seeds.
C6_Witness ==
    /\ run = 2
    /\ pc = "done"
    /\ random_state = "int"
    /\ Len(rng_calls) = 2
    /\ \E l \in Labels : Len(emitted[l]) > n_seeds_S
    /\ first_run.set


\* ------------------------------------------------ C1
\* A 1-NN estimator fit on the minority rows followed by the given rows.
OneNN(rows) == [k |-> 1, fit |-> flatnonzero(y, class_minority) \o rows]

\* C1: with n_neighbors = 1 and no two rows equidistant from a third, once the
\* loop of a targeted class has finished, the 1-NN estimator fit on the
\* minority rows plus the class's emitted rows predicts the true label of
\* every row of the class.
C1_Consistency ==
    (JustEnded /\ estimator_.k = 1 /\ Injective(X)) =>
        \A g \in ClassRows(target_class) :
            predict(X, y, OneNN(emitted[target_class]), X[g], tie_break) = y[g]

\* ------------------------------------------------ C4
\* C4: the number of indices emitted for a targeted class is at most the size
\* of the class plus the number of seed draws that repeat an earlier draw.
C4_SizeBound ==
    JustEnded =>
        Len(emitted[target_class]) <=
            Cardinality(ClassRows(target_class))
                + (Len(seeds) - Cardinality(Range(seeds)))

\* ------------------------------------------------ C5
\* C5: an index is emitted more than once only if it was drawn more than once
\* as a seed of its class; the loop never appends an index the class's list
\* already holds; no index is emitted for two labels.
C5_DuplicatesFromSeeds ==
    /\ JustEnded =>
         \A i \in Samples :
             Count(emitted[target_class], i) > 1 => Count(SeedRows, i) > 1
    /\ last_step.act = "append" =>
         Count(idx_maj_sample, idx_maj_sample[Len(idx_maj_sample)]) = 1
    /\ \A l, m \in Labels :
         l # m => Range(emitted[l]) \cap Range(emitted[m]) = {}

\* ------------------------------------------------ C7
\* The estimator fit on the minority rows plus the seed rows predicts the true
\* label of every row of the class that is no seed.
FullAgreement ==
    \A g \in ClassRows(target_class) \ Range(SeedRows) :
        predict(X, y, OneNN(SeedRows), X[g], tie_break) = y[g]

\* C7: with n_neighbors = 1, when the first fit already predicts every
\* non-seed row of the class right, the estimator is never fit again for the
\* class and the class emits exactly its seed draws.
C7_Idempotence ==
    (JustEnded /\ estimator_.k = 1 /\ FullAgreement) =>
        n_fit = 1 /\ emitted[target_class] = SeedRows

\* ------------------------------------------------ C9
\* The queue positions known to agree with the current estimator: those of the
\* seed rows and those the batch prediction of the last refit got right.
WellClassifiedSet ==
    { p \in 0 .. (Cardinality(ClassRows(target_class)) - 1) :
        NthRow(target_class, p) \in Range(SeedRows) }
    \cup pred_S_ok

\* C9: a loop iteration skips the candidate at queue position p without
\* classifying it exactly when p is in WellClassifiedSet.
C9_Step ==
    (InLoop /\ idx_sam < Cardinality(ClassRows(target_class))) =>
        (last_step'.act = "skip" <=> idx_sam \in WellClassifiedSet)

\* C9: skip soundness: every loop iteration is a C9_Step (the candidate is
\* skipped if and only if its queue position is in WellClassifiedSet).
C9_SkipSoundness == [][C9_Step]_vars

====
